---- MODULE Spec2Model ----
(***************************************************************************)
(* The compressed-notes program (programs/compressed-notes/src/lib.rs):    *)
(* three instruction handlers over a concurrent Merkle tree kept by the    *)
(* account-compression engine, plus the side-log (noop program) on which   *)
(* every note is mirrored.                                                 *)
(*                                                                         *)
(* Idealisations.  keccak is an injective numbering of byte strings (no    *)
(* collisions); a Merkle root is the sequence of the leaves it commits to  *)
(* (padded with the empty leaf), so a root determines the leaf at every    *)
(* index; a public key is one byte.  `ctx.bumps` is taken to hold the      *)
(* bump of the tree authority.  The engine and the runtime's signature     *)
(* check are not part of the repository: they are modelled from the        *)
(* interface the handlers call and from the design document.               *)
(***************************************************************************)
EXTENDS Integers, Sequences, FiniteSets

VARIABLES tree, log, logmeta, seen, last

vars == <<tree, log, logmeta, seen, last>>

(* ------------------------------ bounds --------------------------------- *)

\* Largest number of records the side-log may hold.
MaxLog == 3
\* Largest tree depth the engine supports (a tree of depth D holds 2^D leaves).
MaxDepth == 1
\* Largest change-buffer size the engine supports.
MaxBuffer == 2

(* ------------------------- accounts and inputs ------------------------- *)

\* Addresses of Merkle tree accounts.
Trees == {1, 2}
\* Keys of the callers that sign transactions.
Senders == {11, 12}
\* Keys of recipients.
Recipients == {31}
\* Note texts, as byte strings.
Contents == {<<1>>, <<2>>}

RECURSIVE Pow2(_)
Pow2(n) == IF n = 0 THEN 1 ELSE 2 * Pow2(n - 1)

\* The bytes of a public key (Pubkey::as_ref).
as_ref(key) == <<key>>

RECURSIVE keccak(_)
\* keccak over a byte string: an injective numbering (bytes are 1..63).
keccak(bytes) ==
    IF bytes = <<>> THEN 0 ELSE Head(bytes) + 64 * keccak(Tail(bytes))

RECURSIVE concat(_)
concat(parts) == IF parts = <<>> THEN <<>> ELSE Head(parts) \o concat(Tail(parts))

\* keccak::hashv: the hash of the concatenation of the parts.
hashv(parts) == keccak(concat(parts))

\* The leaf of a note: hash of (message bytes || sender key bytes).
encode_leaf(message, sender) == hashv(<<message, as_ref(sender)>>)

(* --------------------------- authority binding ------------------------- *)

\* The bump of the tree authority found in ctx.bumps.
bumps(merkle_tree) == 63

\* The signer seeds every handler builds: the tree address and the bump.
signers_seeds(merkle_tree) == <<merkle_tree, bumps(merkle_tree)>>

\* The program-derived address the runtime signs for, given signer seeds.
create_program_address(seeds) == 20 + seeds[1]

\* The tree authority of a tree: derived from the tree address alone.
derive_authority(merkle_tree) == create_program_address(signers_seeds(merkle_tree))

\* The accounts a caller may pass as tree_authority: the authority of any
\* tree, or the caller's own key.
AuthorityAccounts(sender) == {derive_authority(t) : t \in Trees} \cup {sender}

(* ------------------------------ log record ----------------------------- *)

\* The record built for the side-log.
new_message_log(leaf_node, owner, recipient, note) ==
    [leaf_node |-> leaf_node, owner |-> owner, recipient |-> recipient, note |-> note]

\* Borsh serialisation of the record: the fixed fields, the length, the text.
try_to_vec(rec) ==
    <<rec.leaf_node, rec.owner, rec.recipient, Len(rec.note)>> \o rec.note

\* What an indexer reads back from a serialised record.
try_from_slice(data) ==
    [leaf_node |-> data[1], owner |-> data[2], recipient |-> data[3],
     note |-> SubSeq(data, 5, 4 + data[4])]

\* The noop program: the data is appended to the side-log.
wrap_application_data_v1(lg, data) == Append(lg, data)

(* ------------------------------- engine -------------------------------- *)

\* An account the engine has not initialised.
Uninit ==
    [init |-> FALSE, depth |-> 0, buf |-> 0, auth |-> 0, leaves |-> <<>>, window |-> <<>>]

\* The empty leaf.
EmptyLeaf == 0

\* The root over `leaves` of a tree of depth `depth`.
MerkleRoot(leaves, depth) ==
    [i \in 1..Pow2(depth) |-> IF i <= Len(leaves) THEN leaves[i] ELSE EmptyLeaf]

\* A value that is the root of no tree.
BogusRoot == <<>>

\* The current root of an initialised tree: the newest entry of its window.
CurrentRoot(st) == st.window[Len(st.window)]

\* The root of a tree account, initialised or not.
RootOf(st) == IF st.init THEN CurrentRoot(st) ELSE BogusRoot

\* The window of recently valid roots after a change: the newest `buf` roots.
PushRoot(window, root, buf) ==
    LET w == Append(window, root)
    IN  IF Len(w) > buf THEN Tail(w) ELSE w

\* `root` is one of the recently valid roots of the tree.
RecentRoot(st, root) == \E k \in 1..Len(st.window) : st.window[k] = root

\* `leaf` is the leaf at `index` under the recently valid `root`, and still is.
ValidLeaf(st, root, leaf, index) ==
    /\ st.init
    /\ RecentRoot(st, root)
    /\ index < Len(st.leaves)
    /\ root[index + 1] = leaf
    /\ st.leaves[index + 1] = leaf

\* The authority account of a call carries a signature: the caller's own
\* (a transaction signer) or the one the runtime makes from the signer seeds.
Signed(cpi) == cpi.authority \in cpi.signers

EngineOk(st) == [ok |-> TRUE, err |-> "Ok", st |-> st]
EngineErr(st, err) == [ok |-> FALSE, err |-> err, st |-> st]

init_empty_merkle_tree(st, cpi, max_depth, max_buffer_size) ==
    IF ~Signed(cpi) THEN EngineErr(st, "MissingRequiredSignature")
    ELSE IF st.init THEN EngineErr(st, "TreeAlreadyInitialized")
    ELSE IF max_depth \notin 1..MaxDepth \/ max_buffer_size \notin 1..MaxBuffer
         THEN EngineErr(st, "InvalidTreeParameters")
    ELSE EngineOk([init |-> TRUE, depth |-> max_depth, buf |-> max_buffer_size,
                   auth |-> cpi.authority, leaves |-> <<>>,
                   window |-> <<MerkleRoot(<<>>, max_depth)>>])

\* The checks every modifying call passes before the engine touches the tree.
ModifyDenied(st, cpi) ==
    IF ~Signed(cpi) THEN "MissingRequiredSignature"
    ELSE IF ~st.init THEN "TreeNotInitialized"
    ELSE IF cpi.authority # st.auth THEN "InvalidAuthority"
    ELSE "Ok"

append(st, cpi, leaf) ==
    IF ModifyDenied(st, cpi) # "Ok" THEN EngineErr(st, ModifyDenied(st, cpi))
    ELSE IF Len(st.leaves) >= Pow2(st.depth) THEN EngineErr(st, "TreeCapacityExceeded")
    ELSE LET leaves == Append(st.leaves, leaf)
         IN  EngineOk([st EXCEPT !.leaves = leaves,
                                 !.window = PushRoot(@, MerkleRoot(leaves, st.depth), st.buf)])

verify_leaf(st, root, leaf, index) ==
    IF ValidLeaf(st, root, leaf, index) THEN EngineOk(st)
    ELSE EngineErr(st, "LeafVerificationFailed")

replace_leaf(st, cpi, root, previous_leaf, new_leaf, index) ==
    IF ModifyDenied(st, cpi) # "Ok" THEN EngineErr(st, ModifyDenied(st, cpi))
    ELSE IF ~ValidLeaf(st, root, previous_leaf, index)
         THEN EngineErr(st, "ConcurrentRootMismatch")
    ELSE LET leaves == [st.leaves EXCEPT ![index + 1] = new_leaf]
         IN  EngineOk([st EXCEPT !.leaves = leaves,
                                 !.window = PushRoot(@, MerkleRoot(leaves, st.depth), st.buf)])

(* ------------------------------ handlers ------------------------------- *)

\* One call a handler made, in the order it made it.
Call(fn, merkle_tree, authority, seeds, root, leaf, new_leaf, index, ok) ==
    [fn |-> fn, tree |-> merkle_tree, authority |-> authority, seeds |-> seeds,
     root |-> root, leaf |-> leaf, new_leaf |-> new_leaf, index |-> index, ok |-> ok]

\* The request of a transaction: the accounts and the instruction arguments.
Request(t, sender, recipient, authority, depth, buf, message, index, root, old, new) ==
    [t |-> t, sender |-> sender, recipient |-> recipient, authority |-> authority,
     depth |-> depth, buf |-> buf, message |-> message, index |-> index,
     root |-> root, old |-> old, new |-> new]

\* CpiContext::new_with_signer: the authority account passed on, and the
\* accounts that sign the call (the transaction's signer and the seeds' address).
new_with_signer(in, seeds) ==
    [authority |-> in.authority, signers |-> {in.sender, create_program_address(seeds)}]

Outcome(tr, lg, res, calls) == [tree |-> tr, log |-> lg, res |-> res, calls |-> calls]

\* One init_empty_merkle_tree call and what the handler returns for it.
InitCall(in, seeds, cpi, ok) ==
    Call("init_empty_merkle_tree", in.t, cpi.authority, seeds, BogusRoot, 0, 0, 0, ok)

\* The depth is a fixed number instead of the max_depth argument.
create_messages_tree_fixed_depth(tr, lg, in) ==
    LET seeds == signers_seeds(in.t)
        cpi == new_with_signer(in, seeds)
        r == init_empty_merkle_tree(tr[in.t], cpi, 1, in.buf)
    IN  Outcome([tr EXCEPT ![in.t] = r.st], lg, r.err, <<InitCall(in, seeds, cpi, r.ok)>>)

\* The engine's error is swallowed: the handler answers Ok whatever init said.
create_messages_tree_unchecked(tr, lg, in) ==
    LET seeds == signers_seeds(in.t)
        cpi == new_with_signer(in, seeds)
        r == init_empty_merkle_tree(tr[in.t], cpi, in.depth, in.buf)
    IN  Outcome([tr EXCEPT ![in.t] = r.st], lg, "Ok", <<InitCall(in, seeds, cpi, r.ok)>>)

create_messages_tree(tr, lg, in) ==
    LET seeds == signers_seeds(in.t)
        cpi == new_with_signer(in, seeds)
        r == init_empty_merkle_tree(tr[in.t], cpi, in.depth, in.buf)
    IN  Outcome([tr EXCEPT ![in.t] = r.st], lg, r.err, <<InitCall(in, seeds, cpi, r.ok)>>)

create_note_tree(tr, lg, in) ==
    LET seeds == signers_seeds(in.t)
        cpi == new_with_signer(in, seeds)
        r == init_empty_merkle_tree(tr[in.t], cpi, in.depth, in.buf)
    IN  Outcome([tr EXCEPT ![in.t] = r.st], lg, r.err, <<InitCall(in, seeds, cpi, r.ok)>>)

\* The record of the wrap_application_data_v1 call for a leaf.
EmitCall(in, leaf) ==
    Call("wrap_application_data_v1", in.t, 0, <<>>, BogusRoot, leaf, 0, 0, TRUE)

\* append_message on the tree account `target`, for the request `in`.
AppendTo(tr, lg, in, target) ==
    LET leaf_node == encode_leaf(in.message, in.sender)
        message_log == new_message_log(leaf_node, in.sender, in.recipient, in.message)
        lg1 == wrap_application_data_v1(lg, try_to_vec(message_log))
        seeds == signers_seeds(target)
        cpi == new_with_signer(in, seeds)
        r == append(tr[target], cpi, leaf_node)
    IN  Outcome([tr EXCEPT ![target] = r.st], lg1, r.err,
                <<EmitCall(in, leaf_node),
                  Call("append", target, cpi.authority, seeds, BogusRoot,
                       leaf_node, 0, 0, r.ok)>>)

\* A refused append is tried a second time before the handler gives up.
append_message_retry(tr, lg, in) ==
    LET first == AppendTo(tr, lg, in, in.t)
        again == AppendTo(first.tree, lg, in, in.t)
    IN  IF first.res = "Ok" THEN first
        ELSE Outcome(again.tree, first.log, again.res,
                     first.calls \o <<again.calls[2]>>)

\* The result of append is dropped: the handler answers Ok whatever it said.
append_message_unchecked(tr, lg, in) ==
    LET a == AppendTo(tr, lg, in, in.t)
    IN  Outcome(a.tree, a.log, "Ok", a.calls)

\* The record is built but never written to the side-log.
append_message_silent(tr, lg, in) ==
    LET a == AppendTo(tr, lg, in, in.t)
    IN  Outcome(a.tree, lg, a.res, <<a.calls[2]>>)

\* The leaf is hashed with the recipient's key instead of the sender's.
append_message_recipient_leaf(tr, lg, in) ==
    LET leaf_node == encode_leaf(in.message, in.recipient)
        message_log == new_message_log(leaf_node, in.sender, in.recipient, in.message)
        lg1 == wrap_application_data_v1(lg, try_to_vec(message_log))
        seeds == signers_seeds(in.t)
        cpi == new_with_signer(in, seeds)
        r == append(tr[in.t], cpi, leaf_node)
    IN  Outcome([tr EXCEPT ![in.t] = r.st], lg1, r.err,
                <<EmitCall(in, leaf_node),
                  Call("append", in.t, cpi.authority, seeds, BogusRoot,
                       leaf_node, 0, 0, r.ok)>>)

\* The tree account is a fixed address instead of the request's merkle_tree.
append_message_fixed_tree(tr, lg, in) == AppendTo(tr, lg, in, 1)

append_message(tr, lg, in) == AppendTo(tr, lg, in, in.t)

\* replace_leaf is given the tree's current root instead of the caller's root.
UpdateFlow_current_root(tr, lg, in, old_leaf, new_leaf, vroot, v) ==
    LET seeds == signers_seeds(in.t)
        cpi == new_with_signer(in, seeds)
        root == RootOf(tr[in.t])
        vcall == Call("verify_leaf", in.t, 0, seeds, vroot, old_leaf, 0, in.index, v.ok)
        message_log == new_message_log(new_leaf, in.sender, in.recipient, in.new)
        lg1 == wrap_application_data_v1(lg, try_to_vec(message_log))
        r == replace_leaf(tr[in.t], cpi, root, old_leaf, new_leaf, in.index)
        rcall == Call("replace_leaf", in.t, cpi.authority, seeds, root,
                      old_leaf, new_leaf, in.index, r.ok)
    IN  IF ~v.ok THEN Outcome(tr, lg, v.err, <<vcall>>)
        ELSE Outcome([tr EXCEPT ![in.t] = r.st], lg1, r.err,
                     <<vcall, EmitCall(in, new_leaf), rcall>>)

\* update_message from the verify_leaf call on: `v` is what verify_leaf
\* answered for (vroot, old_leaf, index); on success the event for new_leaf
\* is logged and replace_leaf is called with the caller's root.
UpdateFlow(tr, lg, in, old_leaf, new_leaf, vroot, v) ==
    LET seeds == signers_seeds(in.t)
        cpi == new_with_signer(in, seeds)
        vcall == Call("verify_leaf", in.t, 0, seeds, vroot, old_leaf, 0, in.index, v.ok)
        message_log == new_message_log(new_leaf, in.sender, in.recipient, in.new)
        lg1 == wrap_application_data_v1(lg, try_to_vec(message_log))
        r == replace_leaf(tr[in.t], cpi, in.root, old_leaf, new_leaf, in.index)
        rcall == Call("replace_leaf", in.t, cpi.authority, seeds, in.root,
                      old_leaf, new_leaf, in.index, r.ok)
    IN  IF ~v.ok THEN Outcome(tr, lg, v.err, <<vcall>>)
        ELSE Outcome([tr EXCEPT ![in.t] = r.st], lg1, r.err,
                     <<vcall, EmitCall(in, new_leaf), rcall>>)

\* The event is written first, before verify_leaf is asked.
update_message_emit_first(tr, lg, in) ==
    LET old_leaf == encode_leaf(in.old, in.sender)
        new_leaf == encode_leaf(in.new, in.sender)
        v == verify_leaf(tr[in.t], in.root, old_leaf, in.index)
        f == UpdateFlow(tr, lg, in, old_leaf, new_leaf, in.root, v)
        message_log == new_message_log(new_leaf, in.sender, in.recipient, in.new)
        lg1 == wrap_application_data_v1(lg, try_to_vec(message_log))
    IN  IF in.old = in.new THEN Outcome(tr, lg, "Ok", <<>>)
        ELSE IF ~v.ok THEN Outcome(tr, lg1, v.err, <<EmitCall(in, new_leaf), f.calls[1]>>)
        ELSE Outcome(f.tree, f.log, f.res, <<f.calls[2], f.calls[1], f.calls[3]>>)

\* replace_leaf is called first and verify_leaf after it: the old leaf is
\* verified against a tree that no longer holds it.
update_message_replace_first(tr, lg, in) ==
    LET old_leaf == encode_leaf(in.old, in.sender)
        new_leaf == encode_leaf(in.new, in.sender)
        seeds == signers_seeds(in.t)
        cpi == new_with_signer(in, seeds)
        r == replace_leaf(tr[in.t], cpi, in.root, old_leaf, new_leaf, in.index)
        rcall == Call("replace_leaf", in.t, cpi.authority, seeds, in.root,
                      old_leaf, new_leaf, in.index, r.ok)
        v == verify_leaf(r.st, in.root, old_leaf, in.index)
        vcall == Call("verify_leaf", in.t, 0, seeds, in.root, old_leaf, 0, in.index, v.ok)
        message_log == new_message_log(new_leaf, in.sender, in.recipient, in.new)
        lg1 == wrap_application_data_v1(lg, try_to_vec(message_log))
    IN  IF in.old = in.new THEN Outcome(tr, lg, "Ok", <<>>)
        ELSE IF ~r.ok THEN Outcome(tr, lg, r.err, <<rcall>>)
        ELSE IF ~v.ok THEN Outcome([tr EXCEPT ![in.t] = r.st], lg, v.err, <<rcall, vcall>>)
        ELSE Outcome([tr EXCEPT ![in.t] = r.st], lg1, "Ok",
                     <<rcall, vcall, EmitCall(in, new_leaf)>>)

\* replace_leaf is given the first index instead of the caller's index.
update_message_first_index(tr, lg, in) ==
    LET old_leaf == encode_leaf(in.old, in.sender)
        new_leaf == encode_leaf(in.new, in.sender)
        seeds == signers_seeds(in.t)
        cpi == new_with_signer(in, seeds)
        v == verify_leaf(tr[in.t], in.root, old_leaf, in.index)
        vcall == Call("verify_leaf", in.t, 0, seeds, in.root, old_leaf, 0, in.index, v.ok)
        message_log == new_message_log(new_leaf, in.sender, in.recipient, in.new)
        lg1 == wrap_application_data_v1(lg, try_to_vec(message_log))
        r == replace_leaf(tr[in.t], cpi, in.root, old_leaf, new_leaf, 0)
        rcall == Call("replace_leaf", in.t, cpi.authority, seeds, in.root,
                      old_leaf, new_leaf, 0, r.ok)
    IN  IF in.old = in.new THEN Outcome(tr, lg, "Ok", <<>>)
        ELSE IF ~v.ok THEN Outcome(tr, lg, v.err, <<vcall>>)
        ELSE Outcome([tr EXCEPT ![in.t] = r.st], lg1, r.err,
                     <<vcall, EmitCall(in, new_leaf), rcall>>)

\* The result of verify_leaf is dropped: the handler goes on whatever it said.
update_message_unchecked(tr, lg, in) ==
    LET old_leaf == encode_leaf(in.old, in.sender)
        new_leaf == encode_leaf(in.new, in.sender)
        v == verify_leaf(tr[in.t], in.root, old_leaf, in.index)
    IN  IF in.old = in.new THEN Outcome(tr, lg, "Ok", <<>>)
        ELSE UpdateFlow(tr, lg, in, old_leaf, new_leaf, in.root, [v EXCEPT !.ok = TRUE])

\* The old leaf is verified against the tree's current root, not the caller's.
update_message_current_root(tr, lg, in) ==
    LET old_leaf == encode_leaf(in.old, in.sender)
        new_leaf == encode_leaf(in.new, in.sender)
        root == RootOf(tr[in.t])
        v == verify_leaf(tr[in.t], root, old_leaf, in.index)
    IN  IF in.old = in.new THEN Outcome(tr, lg, "Ok", <<>>)
        ELSE UpdateFlow(tr, lg, in, old_leaf, new_leaf, root, v)

\* The same-message test is missing: every update verifies and replaces.
update_message_no_shortcut(tr, lg, in) ==
    LET old_leaf == encode_leaf(in.old, in.sender)
        new_leaf == encode_leaf(in.new, in.sender)
        v == verify_leaf(tr[in.t], in.root, old_leaf, in.index)
    IN  UpdateFlow(tr, lg, in, old_leaf, new_leaf, in.root, v)

\* The old leaf is hashed with the recipient's key instead of the sender's.
update_message_recipient_leaf(tr, lg, in) ==
    LET old_leaf == encode_leaf(in.old, in.recipient)
        new_leaf == encode_leaf(in.new, in.sender)
        v == verify_leaf(tr[in.t], in.root, old_leaf, in.index)
    IN  IF in.old = in.new THEN Outcome(tr, lg, "Ok", <<>>)
        ELSE UpdateFlow(tr, lg, in, old_leaf, new_leaf, in.root, v)

\* The new leaf is hashed from the old message instead of the new one.
update_message_stale_leaf(tr, lg, in) ==
    LET old_leaf == encode_leaf(in.old, in.sender)
        new_leaf == encode_leaf(in.old, in.sender)
        v == verify_leaf(tr[in.t], in.root, old_leaf, in.index)
    IN  IF in.old = in.new THEN Outcome(tr, lg, "Ok", <<>>)
        ELSE UpdateFlow(tr, lg, in, old_leaf, new_leaf, in.root, v)

update_message(tr, lg, in) ==
    LET old_leaf == encode_leaf(in.old, in.sender)
        new_leaf == encode_leaf(in.new, in.sender)
        v == verify_leaf(tr[in.t], in.root, old_leaf, in.index)
    IN  IF in.old = in.new THEN Outcome(tr, lg, "Ok", <<>>)
        ELSE UpdateFlow(tr, lg, in, old_leaf, new_leaf, in.root, v)

\* The handler an instruction name stands for.
Handler(op, tr, lg, in) ==
    CASE op = "create_messages_tree" -> create_messages_tree(tr, lg, in)
      [] op = "create_note_tree" -> create_note_tree(tr, lg, in)
      [] op = "append_message" -> append_message(tr, lg, in)
      [] op = "update_message" -> update_message(tr, lg, in)

(* ------------------------------- actions ------------------------------- *)

NoRequest == Request(0, 0, 0, 0, 0, 0, <<>>, 0, BogusRoot, <<>>, <<>>)

\* The accounts, the side-log and the roots seen, as a transaction finds them.
Snapshot(tr, lg, sn) == [tree |-> tr, log |-> lg, seen |-> sn]

\* No transaction is in progress.
Idle == [op |-> "none", in |-> NoRequest, res |-> "Ok", calls |-> <<>>,
         pre |-> Snapshot(<<>>, <<>>, <<>>)]

Init ==
    /\ tree = [t \in Trees |-> Uninit]
    /\ log = <<>>
    /\ logmeta = <<>>
    /\ seen = [t \in Trees |-> {}]
    /\ last = Idle

\* A transaction runs a handler to its end: the accounts and the side-log
\* take the handler's outcome, and the transaction's record is kept (the
\* instruction, the request, the result, the calls made, the state it found).
Execute(op, in, out) ==
    /\ last.op = "none"
    /\ tree' = out.tree
    /\ log' = out.log
    /\ logmeta' = logmeta \o [i \in 1..(Len(out.log) - Len(log)) |->
                                [op |-> op, tree |-> in.t, committed |-> out.res = "Ok"]]
    /\ seen' = [t \in Trees |->
                  IF out.tree[t].init THEN seen[t] \cup {CurrentRoot(out.tree[t])}
                  ELSE seen[t]]
    /\ last' = [op |-> op, in |-> in, res |-> out.res, calls |-> out.calls,
                pre |-> Snapshot(tree, log, seen)]

\* The instructions, for the trees `ts`, the signers `ss`, the tree shapes
\* `depths` x `bufs` asked for, and a side-log of at most `cap` records.
CreateMessagesTree(ts, ss, depths, bufs) ==
    \E t \in ts, sender \in ss, depth \in depths, buf \in bufs :
      \E authority \in AuthorityAccounts(sender) :
        LET in == Request(t, sender, 0, authority, depth, buf, <<>>, 0, BogusRoot, <<>>, <<>>)
        IN  Execute("create_messages_tree", in, create_messages_tree(tree, log, in))

\* NoteAccounts constrains tree_authority to the address derived from the tree.
CreateNoteTree(ts, ss, depths, bufs) ==
    \E t \in ts, owner \in ss, depth \in depths, buf \in bufs :
      \E authority \in AuthorityAccounts(owner) :
        LET in == Request(t, owner, 0, authority, depth, buf, <<>>, 0, BogusRoot, <<>>, <<>>)
        IN  /\ authority = derive_authority(t)
            /\ Execute("create_note_tree", in, create_note_tree(tree, log, in))

AppendMessage(ts, ss, cap) ==
    \E t \in ts, sender \in ss, recipient \in Recipients, message \in Contents :
      \E authority \in AuthorityAccounts(sender) :
        LET in == Request(t, sender, recipient, authority, 0, 0, message, 0, BogusRoot, <<>>, <<>>)
        IN  /\ Len(log) < cap
            /\ Execute("append_message", in, append_message(tree, log, in))

UpdateMessage(ts, ss, cap) ==
    \E t \in ts, sender \in ss, recipient \in Recipients,
       index \in 0..(Pow2(MaxDepth) - 1), old \in Contents, new \in Contents :
      \E authority \in AuthorityAccounts(sender), root \in seen[t] \cup {BogusRoot} :
        LET in == Request(t, sender, recipient, authority, 0, 0, <<>>, index, root, old, new)
        IN  /\ Len(log) < cap
            /\ Execute("update_message", in, update_message(tree, log, in))

\* The transaction's result goes back to the caller; the next one may start.
Return ==
    /\ last.op # "none"
    /\ last' = Idle
    /\ UNCHANGED <<tree, log, logmeta, seen>>

\* One tree, one sender, every shape the engine supports, up to MaxLog
\* records.
Next ==
    \/ CreateMessagesTree({1}, {11}, 1..MaxDepth, 1..MaxBuffer)
    \/ CreateNoteTree({1}, {11}, 1..MaxDepth, 1..MaxBuffer)
    \/ AppendMessage({1}, {11}, MaxLog)
    \/ UpdateMessage({1}, {11}, MaxLog)
    \/ Return

Spec == Init /\ [][Next]_vars

\* One tree, one sender, every shape (valid or not), one record less.
NextShapes ==
    \/ CreateMessagesTree({1}, {11}, 0..MaxDepth, 0..MaxBuffer)
    \/ CreateNoteTree({1}, {11}, 0..MaxDepth, 0..MaxBuffer)
    \/ AppendMessage({1}, {11}, MaxLog - 1)
    \/ UpdateMessage({1}, {11}, MaxLog - 1)
    \/ Return

SpecShapes == Init /\ [][NextShapes]_vars

\* One tree, every sender, the largest shape, one record less.
NextSenders ==
    \/ CreateMessagesTree({1}, Senders, {MaxDepth}, {MaxBuffer})
    \/ CreateNoteTree({1}, Senders, {MaxDepth}, {MaxBuffer})
    \/ AppendMessage({1}, Senders, MaxLog - 1)
    \/ UpdateMessage({1}, Senders, MaxLog - 1)
    \/ Return

SpecSenders == Init /\ [][NextSenders]_vars

\* Every tree, one sender, the largest shape, one record less.
NextTrees ==
    \/ CreateMessagesTree(Trees, {11}, {MaxDepth}, {MaxBuffer})
    \/ CreateNoteTree(Trees, {11}, {MaxDepth}, {MaxBuffer})
    \/ AppendMessage(Trees, {11}, MaxLog - 1)
    \/ UpdateMessage(Trees, {11}, MaxLog - 1)
    \/ Return

SpecTrees == Init /\ [][NextTrees]_vars

(* ------------------------------- claims -------------------------------- *)

\* A transaction has just run (its record is still there).
Ran(op) == last.op = op

\* The leaf the request's old message and sender hash to.
OldLeafOf(in) == encode_leaf(in.old, in.sender)

\* The request's old leaf is not the leaf at its index under its root.
Mismatch(in) ==
    ~(in.index < Len(in.root) /\ in.root[in.index + 1] = OldLeafOf(in))

\* The request passes, as tree_authority, the authority derived from its tree.
WellFormed(in) == in.authority = derive_authority(in.t)

\* The tree account the transaction was addressed to, before and after it.
TreeBefore == last.pre.tree[last.in.t]
TreeAfter == tree[last.in.t]

\* The transaction left every tree account and the side-log as it found them.
NothingChanged == tree = last.pre.tree /\ log = last.pre.log

Creates == {"create_messages_tree", "create_note_tree"}
MutatingCalls == {"init_empty_merkle_tree", "append", "replace_leaf"}

\* C1 as stated: every update_message whose old message, hashed with the
\* sender, is not the leaf at the given index under the given root fails
\* verification and leaves the root as it was.
C1_AsStated ==
    (Ran("update_message") /\ Mismatch(last.in))
      => (last.res = "LeafVerificationFailed" /\ tree = last.pre.tree)

\* C1, amended: an update_message with old_message # new_message whose old
\* message, hashed with the sender, is not the leaf at the given index under
\* the given root fails with LeafVerificationFailed, replace_leaf is not
\* called, and the tree (root, leaves) and the side-log are as before.
C1_MismatchFailsVerification ==
    (Ran("update_message") /\ last.in.old # last.in.new /\ Mismatch(last.in))
      => (/\ last.res = "LeafVerificationFailed"
          /\ NothingChanged
          /\ \A i \in 1..Len(last.calls) : last.calls[i].fn # "replace_leaf")

\* C1 witness: an update that supplied the tree's current root and an old
\* message that another sender had written at that index was refused.
C1_Witness ==
    /\ Ran("update_message")
    /\ last.in.old # last.in.new
    /\ TreeAfter.init
    /\ last.in.root = CurrentRoot(TreeAfter)
    /\ last.in.index < Len(TreeAfter.leaves)
    /\ \E s \in Senders \ {last.in.sender} :
          TreeAfter.leaves[last.in.index + 1] = encode_leaf(last.in.old, s)
    /\ Mismatch(last.in)
    /\ last.res = "LeafVerificationFailed"

\* The request's root was the tree's root once and was not its root any more
\* when the transaction started.
StaleRoot ==
    /\ TreeBefore.init
    /\ last.in.root \in last.pre.seen[last.in.t]
    /\ last.in.root # CurrentRoot(TreeBefore)

\* C2 as stated: an update_message (old # new) that supplies a root captured
\* before another append or update changed the tree's root fails with a
\* concurrency-conflict error and leaves the root unchanged.
C2_AsStated ==
    (Ran("update_message") /\ last.in.old # last.in.new /\ StaleRoot)
      => (/\ last.res \in {"LeafVerificationFailed", "ConcurrentRootMismatch"}
          /\ tree = last.pre.tree)

\* C2, amended: an update_message (old # new) that supplies a former root
\* which has left the tree's window of recently valid roots (the newest
\* max_buffer_size roots) fails with LeafVerificationFailed, a
\* concurrency-conflict error, and leaves the tree unchanged.
C2_RootOutOfWindowFails ==
    (/\ Ran("update_message")
     /\ last.in.old # last.in.new
     /\ StaleRoot
     /\ ~RecentRoot(TreeBefore, last.in.root))
      => (last.res = "LeafVerificationFailed" /\ tree = last.pre.tree)

\* C2 witness: an update was refused although its old message was the leaf at
\* its index under the root it supplied: that root had left the window.
C2_Witness ==
    /\ Ran("update_message")
    /\ last.in.old # last.in.new
    /\ StaleRoot
    /\ ~RecentRoot(TreeBefore, last.in.root)
    /\ ~Mismatch(last.in)
    /\ last.res = "LeafVerificationFailed"

\* C3: an update_message with old_message = new_message, whatever its index,
\* root and sender, returns Ok, makes no engine call and logs nothing, and
\* leaves the tree and the side-log unchanged.
C3_NoOpUpdate ==
    (Ran("update_message") /\ last.in.old = last.in.new)
      => (last.res = "Ok" /\ last.calls = <<>> /\ NothingChanged)

\* C3 witness: a no-op update with a root that was never valid and an index
\* that holds no leaf returned Ok.
C3_Witness ==
    /\ Ran("update_message")
    /\ last.in.old = last.in.new
    /\ last.in.root = BogusRoot
    /\ TreeAfter.init
    /\ last.in.index >= Len(TreeAfter.leaves)
    /\ last.res = "Ok"

\* C4 as stated: every record of the side-log that an update_message emitted
\* carries a leaf which that update's replace_leaf committed to the tree.
C4_UpdateEventsCommitted ==
    \A i \in 1..Len(logmeta) :
        logmeta[i].op = "update_message" => logmeta[i].committed

\* C5 as stated: when the engine rejects the append call of append_message
\* because the tree is full, the root is unchanged and no record for that
\* message is left in the side-log.
C5_RejectedAppendLeavesNoEvent ==
    (Ran("append_message") /\ last.res = "TreeCapacityExceeded") => NothingChanged

\* The newest record the transaction found in the side-log is the event of a
\* committed append_message on its tree, by its sender, of its old message.
JustAppended ==
    LET n == Len(last.pre.log)
    IN  /\ n >= 1
        /\ logmeta[n].op = "append_message"
        /\ logmeta[n].tree = last.in.t
        /\ logmeta[n].committed
        /\ try_from_slice(last.pre.log[n]).owner = last.in.sender
        /\ try_from_slice(last.pre.log[n]).note = last.in.old

\* The update asks for the leaf appended last, under the root it found, with
\* a different new message, passing the authority account the tree is bound to.
UpdatesLastLeaf ==
    /\ last.in.old # last.in.new
    /\ last.in.index = Len(TreeBefore.leaves) - 1
    /\ last.in.root = RootOf(TreeBefore)
    /\ last.in.authority = TreeBefore.auth

\* C6: when the newest event is a committed append_message(content) by sender
\* S on a tree, an update_message on that tree by S with the index of the
\* appended leaf, the root after the append, old_message = content and a
\* different new_message (and the authority account the append passed)
\* returns Ok, and the tree's root differs from the root after the append.
C6_AppendThenUpdate ==
    (Ran("update_message") /\ JustAppended /\ UpdatesLastLeaf)
      => (last.res = "Ok" /\ RootOf(TreeAfter) # RootOf(TreeBefore))

\* C6 witness: such an update, on the second leaf of the tree, committed.
C6_Witness ==
    /\ Ran("update_message")
    /\ JustAppended
    /\ UpdatesLastLeaf
    /\ last.in.index = 1
    /\ last.res = "Ok"

\* C7: a create instruction on a tree that is already initialised fails and
\* leaves the tree's depth, buffer size, root and leaves as they were; when
\* it passes the tree's derived authority the error is TreeAlreadyInitialized,
\* a configuration error, whatever shape it asks for.
C7_SecondCreateFails ==
    (last.op \in Creates /\ TreeBefore.init)
      => (/\ last.res # "Ok"
          /\ NothingChanged
          /\ WellFormed(last.in) => last.res = "TreeAlreadyInitialized")

\* C7 witness: a create asking for another shape, on a tree that holds a leaf,
\* was refused with TreeAlreadyInitialized.
C7_Witness ==
    /\ last.op \in Creates
    /\ WellFormed(last.in)
    /\ last.in.depth >= 1
    /\ last.in.buf >= 1
    /\ last.in.buf # TreeAfter.buf
    /\ Len(TreeAfter.leaves) >= 1
    /\ last.res = "TreeAlreadyInitialized"

\* C8 as stated: every engine call that mutates a tree is authorised with the
\* authority derived from that tree's identity, and different trees have
\* different derived authorities.
C8_DerivedAuthorityOnly ==
    /\ \A i \in 1..Len(last.calls) :
          (last.calls[i].fn \in MutatingCalls /\ last.calls[i].ok)
            => last.calls[i].authority = derive_authority(last.calls[i].tree)
    /\ \A t \in Trees, u \in Trees :
          t # u => derive_authority(t) # derive_authority(u)

\* The leaf a handler passed to the engine in its last call (append's leaf,
\* replace_leaf's new leaf).
EngineLeaf(calls) ==
    LET c == calls[Len(calls)]
    IN  IF c.fn = "append" THEN c.leaf ELSE c.new_leaf

\* C9: whenever append_message or update_message emits an event, the leaf in
\* the event is the leaf passed to the engine in the same call (append's leaf,
\* replace_leaf's new leaf), it is encode_leaf(note of the event, sender),
\* the event's owner is the sender and its note is the message given.
C9_EventMirrorsLeaf ==
    (last.op \in {"append_message", "update_message"} /\ Len(log) > Len(last.pre.log))
      => LET ev == try_from_slice(log[Len(log)])
         IN  /\ Len(log) = Len(last.pre.log) + 1
             /\ ev.leaf_node = EngineLeaf(last.calls)
             /\ ev.leaf_node = encode_leaf(ev.note, last.in.sender)
             /\ ev.owner = last.in.sender
             /\ ev.note = (IF Ran("append_message") THEN last.in.message
                           ELSE last.in.new)

\* C9 witness: an update_message by the second sender emitted its event and
\* replaced the leaf.
C9_Witness ==
    /\ Ran("update_message")
    /\ Len(last.calls) = 3
    /\ last.res = "Ok"
    /\ last.in.sender = 12
    /\ try_from_slice(log[Len(log)]).note = last.in.new

\* C10: an instruction addressed to a tree leaves every other tree account
\* unchanged, and its result and its effect on its own tree are the same as
\* they would be with the other tree uninitialised.
C10_TreesIndependent ==
    last.op # "none"
      => \A u \in Trees \ {last.in.t} :
            /\ tree[u] = last.pre.tree[u]
            /\ LET alt == Handler(last.op, [last.pre.tree EXCEPT ![u] = Uninit],
                                  last.pre.log, last.in)
               IN  /\ alt.res = last.res
                   /\ alt.tree[last.in.t] = TreeAfter

\* C10 witness: an append_message committed on one tree while another tree
\* holds a leaf.
C10_Witness ==
    /\ Ran("append_message")
    /\ last.res = "Ok"
    /\ \E u \in Trees \ {last.in.t} : Len(tree[u].leaves) >= 1

\* C11: in an update_message with old_message # new_message the first call is
\* verify_leaf; when it succeeds the handler then writes exactly one event and
\* then calls replace_leaf, in that order; when it fails nothing else is
\* called, no event is written and the tree is untouched.
C11_VerifyThenEmitThenReplace ==
    (Ran("update_message") /\ last.in.old # last.in.new)
      => LET c == last.calls
         IN  /\ Len(c) >= 1
             /\ c[1].fn = "verify_leaf"
             /\ IF c[1].ok
                THEN /\ Len(c) = 3
                     /\ c[2].fn = "wrap_application_data_v1"
                     /\ c[3].fn = "replace_leaf"
                     /\ Len(log) = Len(last.pre.log) + 1
                ELSE /\ Len(c) = 1
                     /\ last.res = "LeafVerificationFailed"
                     /\ NothingChanged

\* C11 witness: an update passed verification, wrote its event and had its
\* replace_leaf refused.
C11_Witness ==
    /\ Ran("update_message")
    /\ Len(last.calls) = 3
    /\ last.calls[1].ok
    /\ ~last.calls[3].ok
    /\ Len(log) = Len(last.pre.log) + 1

\* The transaction was an append or an update that changed the root of its tree.
InterleavedMutation ==
    /\ last.op \in {"append_message", "update_message"}
    /\ last.res = "Ok"
    /\ TreeBefore.init
    /\ RootOf(TreeAfter) # RootOf(TreeBefore)

\* The update requests on that tree that name a root the tree has had, by any
\* sender, passing the authority account the tree is bound to.
PendingUpdates ==
    {Request(last.in.t, s, r, TreeAfter.auth, 0, 0, <<>>, i, root, old, new) :
        s \in Senders, r \in Recipients, i \in 0..(Pow2(MaxDepth) - 1),
        root \in last.pre.seen[last.in.t], old \in Contents, new \in Contents}

\* What verify_leaf answered the request before the transaction ran.
VerifiedBefore(in) ==
    verify_leaf(TreeBefore, in.root, OldLeafOf(in), in.index)

\* The rest of the update (event, replace_leaf) run after the transaction.
ResumedAfter(in) ==
    UpdateFlow(tree, log, in, OldLeafOf(in), encode_leaf(in.new, in.sender),
               in.root, VerifiedBefore(in))

AppendEvents(t) ==
    Cardinality({i \in 1..Len(logmeta) :
                    logmeta[i].op = "append_message" /\ logmeta[i].tree = t})

\* C13 as stated: on a tree that has been created, the k-th event that
\* append_message wrote for the tree carries the leaf the engine placed at
\* index k-1 of that tree.
C13_AppendEventsGiveIndex ==
    (Ran("append_message") /\ TreeBefore.init)
      => LET k == AppendEvents(last.in.t)
             ev == try_from_slice(log[Len(log)])
         IN  /\ Len(TreeAfter.leaves) = k
             /\ TreeAfter.leaves[k] = ev.leaf_node

\* C14: a transaction that returns an error, and an update_message with
\* old_message = new_message, leave the root of every tree as it was; the
\* root of a created tree changes only in an append_message that returned Ok
\* or an update_message with old_message # new_message that returned Ok, and
\* only on the tree the transaction was addressed to.
C14_RootChangesOnlyOnSuccess ==
    last.op # "none"
      => /\ (last.res # "Ok" \/ (Ran("update_message") /\ last.in.old = last.in.new))
              => \A t \in Trees : RootOf(tree[t]) = RootOf(last.pre.tree[t])
         /\ \A t \in Trees :
              (last.pre.tree[t].init /\ RootOf(tree[t]) # RootOf(last.pre.tree[t]))
                => /\ t = last.in.t
                   /\ last.res = "Ok"
                   /\ last.op \in {"append_message", "update_message"}
                   /\ Ran("update_message") => last.in.old # last.in.new

\* C14 witness: an update whose old leaf was in place under a recently valid
\* root was refused by replace_leaf, and the root is the one it found.
C14_Witness ==
    /\ Ran("update_message")
    /\ last.in.old # last.in.new
    /\ Len(last.calls) = 3
    /\ last.res = "InvalidAuthority"
    /\ RootOf(TreeAfter) = RootOf(TreeBefore)

\* The number of calls of an engine function among the calls of a transaction.
CallsOf(fn) == Cardinality({i \in 1..Len(last.calls) : last.calls[i].fn = fn})

\* C15: one append_message makes at most one append call, one update_message
\* at most one verify_leaf call and at most one replace_leaf call; a call the
\* engine refused is the last call of the transaction, and the transaction
\* returns that call's error.
C15_SingleAttempt ==
    last.op # "none"
      => /\ CallsOf("append") <= (IF Ran("append_message") THEN 1 ELSE 0)
         /\ CallsOf("verify_leaf") <= (IF Ran("update_message") THEN 1 ELSE 0)
         /\ CallsOf("replace_leaf") <= (IF Ran("update_message") THEN 1 ELSE 0)
         /\ CallsOf("init_empty_merkle_tree") <= (IF last.op \in Creates THEN 1 ELSE 0)
         /\ \A i \in 1..Len(last.calls) :
              ~last.calls[i].ok => (i = Len(last.calls) /\ last.res # "Ok")
         /\ (last.res # "Ok")
              => (Len(last.calls) >= 1 /\ ~last.calls[Len(last.calls)].ok)

\* C15 witness: an append_message on a tree with room for the leaf had its one
\* append call refused and returned the error.
C15_Witness ==
    /\ Ran("append_message")
    /\ TreeBefore.init
    /\ Len(TreeBefore.leaves) < Pow2(TreeBefore.depth)
    /\ CallsOf("append") = 1
    /\ last.res = "InvalidAuthority"

\* The tree held as many leaves as its depth allows when the transaction ran.
WasFull == TreeBefore.init /\ Len(TreeBefore.leaves) = Pow2(TreeBefore.depth)

\* C16: an append_message on a tree of depth D that holds 2^D leaves fails
\* and leaves every tree as it was; when it passes the authority account the
\* tree is bound to, the error is TreeCapacityExceeded.  No tree ever holds
\* more than 2^D leaves.
C16_FullTreeRefusesAppend ==
    /\ (Ran("append_message") /\ WasFull)
          => (/\ last.res # "Ok"
              /\ tree = last.pre.tree
              /\ last.in.authority = TreeBefore.auth
                    => last.res = "TreeCapacityExceeded")
    /\ \A t \in Trees : tree[t].init => Len(tree[t].leaves) <= Pow2(tree[t].depth)

\* C16 witness: an append_message on a full tree was refused with
\* TreeCapacityExceeded.
C16_Witness ==
    /\ Ran("append_message")
    /\ WasFull
    /\ last.res = "TreeCapacityExceeded"
    /\ Len(TreeAfter.leaves) = Pow2(TreeAfter.depth)

\* The side-log the transaction found is the beginning of the side-log now.
LogExtended ==
    /\ Len(log) >= Len(last.pre.log)
    /\ SubSeq(log, 1, Len(last.pre.log)) = last.pre.log

\* C17: a transaction never changes or removes a record of the side-log; an
\* append_message that returned Ok and an update_message with old_message #
\* new_message that returned Ok add exactly one record, which is the event of
\* the message given; the create instructions and an update_message with
\* old_message = new_message add none.
C17_LogAppendOnlyAndComplete ==
    last.op # "none"
      => /\ LogExtended
         /\ (last.res = "Ok" /\ Ran("append_message"))
              => (/\ Len(log) = Len(last.pre.log) + 1
                  /\ try_from_slice(log[Len(log)]).note = last.in.message)
         /\ (last.res = "Ok" /\ Ran("update_message") /\ last.in.old # last.in.new)
              => (/\ Len(log) = Len(last.pre.log) + 1
                  /\ try_from_slice(log[Len(log)]).note = last.in.new)
         /\ (last.op \in Creates \/ (Ran("update_message") /\ last.in.old = last.in.new))
              => log = last.pre.log

\* C17 witness: an append_message committed and added its event after the
\* records the side-log already held.
C17_Witness ==
    /\ Ran("append_message")
    /\ last.res = "Ok"
    /\ Len(last.pre.log) >= 1
    /\ LogExtended
    /\ Len(log) = Len(last.pre.log) + 1

\* C18: a create instruction that returned Ok leaves its tree initialised with
\* the depth and buffer size asked for, no leaves, and the root of the empty
\* tree of that depth; append_message and update_message never change the
\* depth or the buffer size of a tree; a create instruction that failed on a
\* tree that was not initialised leaves it uninitialised.
C18_ShapeFixedAtCreation ==
    /\ (last.op \in Creates /\ last.res = "Ok")
          => (/\ TreeAfter.init
              /\ TreeAfter.depth = last.in.depth
              /\ TreeAfter.buf = last.in.buf
              /\ TreeAfter.leaves = <<>>
              /\ RootOf(TreeAfter) = MerkleRoot(<<>>, last.in.depth))
    /\ (last.op \in {"append_message", "update_message"})
          => \A t \in Trees : /\ tree[t].init = last.pre.tree[t].init
                              /\ tree[t].depth = last.pre.tree[t].depth
                              /\ tree[t].buf = last.pre.tree[t].buf
    /\ (last.op \in Creates /\ last.res # "Ok" /\ ~TreeBefore.init)
          => TreeAfter = Uninit

\* C18 witness: a create instruction asking for a depth the engine does not
\* support was refused and the tree is uninitialised.
C18_Witness ==
    /\ last.op \in Creates
    /\ WellFormed(last.in)
    /\ last.in.depth \notin 1..MaxDepth
    /\ last.res = "InvalidTreeParameters"
    /\ TreeAfter = Uninit

\* C19: an update_message that returned Ok with old_message # new_message
\* changed the leaf at its index to encode_leaf(new_message, sender) and left
\* the leaf at every other index, the number of leaves, and every other tree
\* as they were.
C19_UpdateChangesOneLeaf ==
    (Ran("update_message") /\ last.res = "Ok" /\ last.in.old # last.in.new)
      => /\ Len(TreeAfter.leaves) = Len(TreeBefore.leaves)
         /\ last.in.index < Len(TreeAfter.leaves)
         /\ TreeAfter.leaves[last.in.index + 1] = encode_leaf(last.in.new, last.in.sender)
         /\ \A j \in 1..Len(TreeBefore.leaves) :
              j # last.in.index + 1 => TreeAfter.leaves[j] = TreeBefore.leaves[j]
         /\ \A u \in Trees \ {last.in.t} : tree[u] = last.pre.tree[u]

\* C19 witness: an update of the second leaf committed on a tree whose first
\* leaf is the same note by the same sender.
C19_Witness ==
    /\ Ran("update_message")
    /\ last.res = "Ok"
    /\ last.in.old # last.in.new
    /\ last.in.index = 1
    /\ TreeBefore.leaves[1] = TreeBefore.leaves[2]
    /\ TreeAfter.leaves[1] = TreeBefore.leaves[1]

\* The leaf is the note of some text by the sender `s`.
OwnedBy(leaf, s) == \E c \in Contents : leaf = encode_leaf(c, s)

\* C20: a leaf is the note of the sender that appended it, for life: the
\* leaf an append_message places is encode_leaf(message, sender); an
\* update_message by a sender other than the one a leaf belongs to fails and
\* leaves the tree as it was, whatever index, root and old message it gives;
\* an update_message that returns Ok replaces a leaf of its sender by a leaf
\* of its sender; so every leaf of every tree belongs to exactly one sender.
C20_LeafBoundToSender ==
    /\ (Ran("append_message") /\ last.res = "Ok")
          => (/\ Len(TreeAfter.leaves) = Len(TreeBefore.leaves) + 1
              /\ TreeAfter.leaves[Len(TreeAfter.leaves)]
                    = encode_leaf(last.in.message, last.in.sender))
    /\ (/\ Ran("update_message")
        /\ last.in.old # last.in.new
        /\ last.in.index < Len(TreeBefore.leaves)
        /\ ~OwnedBy(TreeBefore.leaves[last.in.index + 1], last.in.sender))
          => (last.res # "Ok" /\ tree = last.pre.tree)
    /\ (Ran("update_message") /\ last.res = "Ok" /\ last.in.old # last.in.new)
          => (/\ TreeBefore.leaves[last.in.index + 1]
                    = encode_leaf(last.in.old, last.in.sender)
              /\ OwnedBy(TreeAfter.leaves[last.in.index + 1], last.in.sender))
    /\ \A t \in Trees : \A j \in 1..Len(tree[t].leaves) :
          Cardinality({s \in Senders : OwnedBy(tree[t].leaves[j], s)}) = 1

\* C20 witness: an update by the second sender, with the right index, the
\* current root, the old message and the authority the tree is bound to, on
\* a leaf the first sender appended, was refused.
C20_Witness ==
    /\ Ran("update_message")
    /\ last.in.sender = 12
    /\ last.in.old # last.in.new
    /\ last.in.index < Len(TreeBefore.leaves)
    /\ last.in.root = RootOf(TreeBefore)
    /\ last.in.authority = TreeBefore.auth
    /\ TreeBefore.leaves[last.in.index + 1] = encode_leaf(last.in.old, 11)
    /\ last.res = "LeafVerificationFailed"
    /\ tree = last.pre.tree

====
